---- MODULE Spec2Model ----
(***************************************************************************)
(* django-quickbooks: the QuickBooks v3 API client (quickbooks/api.py) and *)
(* the OAuth token store lookups (quickbooks/models.py).                   *)
(*                                                                         *)
(* Strings that the code builds, lower-cases or URL-encodes are sequences  *)
(* of one-character strings, so that lower() and urllib.quote() are        *)
(* computed character by character.  A value that may be None or a missing *)
(* dictionary key is a sequence of length 0 (absent) or 1 (present).       *)
(* A call that performs network I/O is split at the blocking request: the  *)
(* call action dispatches the request and suspends (pc names the suspended *)
(* method), the matching return action consumes the transport's reply.     *)
(***************************************************************************)
EXTENDS Integers, Sequences, FiniteSets, TLC

VARIABLES tokens, api, pc, frame, wire, last_response, result

vars == <<tokens, api, pc, frame, wire, last_response, result>>

(* ------------------------------ bounds --------------------------------- *)

\* longest Fault.Error list in a response body
MaxErrors == 2
\* largest retries argument given to app_menu
MaxRetries == 2

(* ------------------------------ strings -------------------------------- *)

ASCII == <<" ","!","dquote","#","$","%","&","'","(",")","*","+",",","-",".","/","0","1","2","3","4","5","6","7","8","9",":",";","<","=",">","?","@","A","B","C","D","E","F","G","H","I","J","K","L","M","N","O","P","Q","R","S","T","U","V","W","X","Y","Z","[","backslash","]","^","_","backtick","a","b","c","d","e","f","g","h","i","j","k","l","m","n","o","p","q","r","s","t","u","v","w","x","y","z","{","|","}","~">>
UPPERCASE == <<"A","B","C","D","E","F","G","H","I","J","K","L","M","N","O","P","Q","R","S","T","U","V","W","X","Y","Z">>
LOWERCASE == <<"a","b","c","d","e","f","g","h","i","j","k","l","m","n","o","p","q","r","s","t","u","v","w","x","y","z">>
HEXDIGITS == <<"0","1","2","3","4","5","6","7","8","9","A","B","C","D","E","F">>
DIGITS == <<"0","1","2","3","4","5","6","7","8","9">>

Range(s) == {s[i] : i \in 1..Len(s)}

Index(c, s) == CHOOSE i \in 1..Len(s) : s[i] = c

\* the ordinal of a printable ASCII character (the table names the double
\* quote, the backslash and the backtick, which no input of the model contains)
ord(c) == Index(c, ASCII) + 31

chr(n) == ASCII[n - 31]

\* str.lower(), character by character
lower_map == [c \in Range(ASCII) |->
                IF c \in Range(UPPERCASE) THEN LOWERCASE[Index(c, UPPERCASE)] ELSE c]

str_keep(s) == s

str_lower(s) == [i \in 1..Len(s) |-> lower_map[s[i]]]

\* urllib.quote(s, safe='/'): letters, digits, '_', '.', '-' and '/' are
\* kept, every other character becomes %XX in upper-case hexadecimal
always_safe == Range(UPPERCASE) \cup Range(LOWERCASE) \cup Range(DIGITS) \cup {"_", ".", "-"}

quote_map == [c \in Range(ASCII) |->
                IF c \in always_safe \cup {"/"}
                  THEN <<c>>
                  ELSE <<"%", HEXDIGITS[(ord(c) \div 16) + 1], HEXDIGITS[(ord(c) % 16) + 1]>>]

RECURSIVE quote_from(_, _)
quote_from(s, i) == IF i > Len(s) THEN <<>> ELSE quote_map[s[i]] \o quote_from(s, i + 1)

quote_twice(s) == quote_from(quote_from(s, 1), 1)

quote(s) == quote_from(s, 1)

\* the inverse the remote service applies to the query parameter
hexval(c) == Index(c, HEXDIGITS) - 1

RECURSIVE unquote_from(_, _)
unquote_from(s, i) ==
    IF i > Len(s) THEN <<>>
    ELSE IF s[i] = "%" /\ i + 2 <= Len(s)
              /\ s[i + 1] \in Range(HEXDIGITS) /\ s[i + 2] \in Range(HEXDIGITS)
              /\ 16 * hexval(s[i + 1]) + hexval(s[i + 2]) \in 32..126
           THEN <<chr(16 * hexval(s[i + 1]) + hexval(s[i + 2]))>> \o unquote_from(s, i + 3)
           ELSE <<s[i]>> \o unquote_from(s, i + 1)

unquote(s) == unquote_from(s, 1)

(* ------------------------------ constants ------------------------------ *)

APPCENTER_URL_BASE == <<"h","t","t","p","s",":","/","/","a","p","p","c","e","n","t","e","r",".","i","n","t","u","i","t",".","c","o","m","/","a","p","i","/","v","1","/">>

QUICKBOOKS_DESKTOP_V3_URL_BASE == <<"h","t","t","p","s",":","/","/","q","u","i","c","k","b","o","o","k","s",".","a","p","i",".","i","n","t","u","i","t",".","c","o","m","/","v","3">>
QUICKBOOKS_ONLINE_V3_URL_BASE == <<"h","t","t","p","s",":","/","/","q","u","i","c","k","b","o","o","k","s",".","a","p","i",".","i","n","t","u","i","t",".","c","o","m","/","v","3">>
QUICKBOOKS_ONLINE_V3_SANDBOX_URL_BASE == <<"h","t","t","p","s",":","/","/","s","a","n","d","b","o","x","-","q","u","i","c","k","b","o","o","k","s",".","a","p","i",".","i","n","t","u","i","t",".","c","o","m","/","v","3">>

\* ERRORS: remote error code -> exception class
ERRORS == [c \in {"5030", "6240"} |->
             IF c = "5030" THEN "FeatureNotSupportedError" ELSE "DuplicateNameError"]

\* exceptions error_check raises itself
Classified == {"AuthenticationFailure", "ApiError", "DuplicateNameError",
               "FeatureNotSupportedError", "DuplicateItemError"}

(* ------------------------- optional values ----------------------------- *)

None == <<>>

Some(x) == <<x>>

(* --------------------------- response bodies --------------------------- *)
(* A body is the text of an HTTP response as response.json() sees it:      *)
(* parses = FALSE is text that is not JSON; otherwise the JSON object's    *)
(* keys, a missing key being None.                                         *)

Codes == {"5030", "6240", "10000"}

ErrorEntry(c) == [code |-> c, Message |-> "m"]

ErrorLists == UNION {[1..n -> {ErrorEntry(c) : c \in Codes}] : n \in 0..MaxErrors}

JsonBody(fault, qr) == [parses |-> TRUE, Fault |-> fault, QueryResponse |-> qr, time |-> "t"]

InvalidBody == [parses |-> FALSE, Fault |-> None, QueryResponse |-> None, time |-> ""]

PlainBody == JsonBody(None, None)

FaultOf(errors) == [Error |-> errors, type |-> "ValidationFault"]

FaultBodies == {JsonBody(Some(FaultOf(None)), None)}
                 \cup {JsonBody(Some(FaultOf(Some(l))), None) : l \in ErrorLists}

Pair(n, v) == [Name |-> Some(n), Value |-> v]

NamelessPair(v) == [Name |-> None, Value |-> v]

NameValueLists ==
    { <<>>,
      <<Pair("CompanyType", "x")>>,
      <<Pair("OfferingSku", "Plus")>>,
      <<Pair("CompanyType", "x"), Pair("OfferingSku", "Essentials")>>,
      <<Pair("OfferingSku", "Plus"), Pair("OfferingSku", "Essentials")>>,
      <<NamelessPair("x"), Pair("OfferingSku", "Plus")>>,
      <<Pair("OfferingSku", "Plus"), NamelessPair("x")>> }

CompanyInfoOf(nv) == [NameValue |-> nv]

QueryResponseOf(ci) == [CompanyInfo |-> ci]

CompanyInfoBodies ==
    { JsonBody(None, Some(QueryResponseOf(None))),
      JsonBody(None, Some(QueryResponseOf(Some(<<>>)))),
      JsonBody(None, Some(QueryResponseOf(Some(<<CompanyInfoOf(None)>>)))) }
      \cup {JsonBody(None, Some(QueryResponseOf(Some(<<CompanyInfoOf(Some(l))>>)))) :
                l \in NameValueLists}

Bodies == {InvalidBody, PlainBody} \cup FaultBodies \cup CompanyInfoBodies

Statuses == {200, 400, 401, 404, 500}

Responses == [status_code : Statuses, body : Bodies, content : {""}]

\* what session.get / session.post does: raise (None) or hand back a response
Replies == {None} \cup {Some(r) : r \in Responses}

(* ----------------------------- error_check ----------------------------- *)

Raise(exc, body, parsed) == [kind |-> "raise", exc |-> exc, body |-> body, parsed |-> parsed]

Return(body) == [kind |-> "return", exc |-> "", body |-> Some(body), parsed |-> TRUE]

\* response.json(): ValueError when the text is not JSON
response_json(response) ==
    IF response.body.parses THEN Return(response.body) ELSE Raise("ValueError", None, TRUE)

\* the for loop of error_check: the index of the first entry whose code is
\* in ERRORS, 0 when the loop ends without raising
RECURSIVE scan_from(_, _)
scan_from(errors, i) ==
    IF i > Len(errors) THEN 0
    ELSE IF errors[i].code \in DOMAIN ERRORS THEN i ELSE scan_from(errors, i + 1)

RECURSIVE scan_back(_, _)
scan_back(errors, i) ==
    IF i < 1 THEN 0
    ELSE IF errors[i].code \in DOMAIN ERRORS THEN i ELSE scan_back(errors, i - 1)

scan_errors_last(errors) == scan_back(errors, Len(errors))

scan_errors(errors) == scan_from(errors, 1)

\* resp_json['Fault'].get('Error', [])
fault_errors(resp_json) ==
    IF resp_json.Fault[1].Error = None THEN <<>> ELSE resp_json.Fault[1].Error[1]

\* the body of "if 'Fault' in resp_json:"
raise_fault(resp_json) ==
    LET errors == fault_errors(resp_json)
        k == scan_errors(errors)
    IN  IF k > 0
          THEN Raise(ERRORS[errors[k].code], Some(resp_json), TRUE)
          ELSE Raise("ApiError", Some(resp_json), TRUE)

error_check_json_first(response) ==
    IF ~response.body.parses THEN Raise("ValueError", None, TRUE)
    ELSE IF response.status_code = 400 /\ response.body.Fault # None
           THEN raise_fault(response.body)
    ELSE IF response.status_code = 401 THEN Raise("AuthenticationFailure", None, TRUE)
    ELSE response_json(response)

error_check_any_error_status(response) ==
    IF response.status_code >= 400 /\ response.status_code # 401
         /\ response.body.parses /\ response.body.Fault # None
      THEN raise_fault(response.body)
    ELSE IF response.status_code = 401 THEN Raise("AuthenticationFailure", None, FALSE)
    ELSE response_json(response)

error_check(response) ==
    IF response.status_code = 400 /\ ~response.body.parses
      THEN Raise("ValueError", None, TRUE)
    ELSE IF response.status_code = 400 /\ response.body.Fault # None
      THEN raise_fault(response.body)
    ELSE IF response.status_code = 401
      THEN Raise("AuthenticationFailure", None, FALSE)
    ELSE response_json(response)

(* ----------------------------- token store ----------------------------- *)

UserOf(name, auth) == [username |-> name, is_authenticated |-> auth]

alice == UserOf("alice", TRUE)

bob == UserOf("bob", TRUE)

carol == UserOf("carol", FALSE)

Users == {alice, bob, carol}

QuickbooksToken(u, k, s, r, d) ==
    [user |-> u, access_token |-> k, access_token_secret |-> s, realm_id |-> r,
     data_source |-> d]

token1 == QuickbooksToken(alice, "k1", "s1", <<"1","2","3">>, "QBO")

token2 == QuickbooksToken(alice, "k2", "s2", <<"A","b","9">>, "QBD")

token3 == QuickbooksToken(carol, "k3", "s3", <<"9","Z">>, "QBX")

Tokens == {token1, token2, token3}

\* contents of the QuickbooksToken table, in the order a filter returns rows
Stores == {<<token1, token2, token3>>, <<token2, token1>>}

\* QuickbooksToken.objects.filter(user=user)
objects_filter(table, user) == SelectSeq(table, LAMBDA t : t.user = user)

\* a User instance, or a request-like object carrying one as .user
LookupArgs == [type : {"User", "HttpRequest"}, user : Users]

find_skipping_authentication(request_or_user, table) ==
    LET rows == objects_filter(table, request_or_user.user)
    IN  IF rows = <<>> THEN None ELSE Some(rows[1])

find_quickbooks_token(request_or_user, table) ==
    LET user == request_or_user.user
        rows == objects_filter(table, user)
    IN  IF ~user.is_authenticated THEN None
        ELSE IF rows = <<>> THEN None
        ELSE Some(rows[1])

\* [raised, token]
get_quickbooks_token(request, table) ==
    LET token == find_quickbooks_token(request, table)
    IN  IF token = None
          THEN [exc |-> "MissingTokenException", token |-> None]
          ELSE [exc |-> "", token |-> token]

(* ------------------------------- client -------------------------------- *)

\* the default of the retries parameter of _appcenter_request and app_menu
DefaultRetries == 3

\* OAuth1Session(...) and the headers update
OAuth1Session(token) ==
    [resource_owner_key |-> token.access_token,
     resource_owner_secret |-> token.access_token_secret,
     headers |-> "application/json"]

\* what a caller may pass as owner_or_token
Owners == {[type |-> "User", user |-> Some(u), token |-> None] : u \in Users}
            \cup {[type |-> "QuickbooksToken", user |-> None, token |-> Some(t)] : t \in Tokens}
            \cup {[type |-> "Other", user |-> None, token |-> None]}

\* .first() of a queryset
first(rows) == IF rows = <<>> THEN None ELSE Some(rows[1])

resolve_token_unchecked(owner_or_token, table) ==
    IF owner_or_token.type = "User"
      THEN [exc |-> "", token |-> first(objects_filter(table, owner_or_token.user[1]))]
      ELSE [exc |-> "", token |-> owner_or_token.token]

\* the isinstance chain of __init__
resolve_token(owner_or_token, table) ==
    IF owner_or_token.type = "User"
      THEN [exc |-> "", token |-> first(objects_filter(table, owner_or_token.user[1]))]
    ELSE IF owner_or_token.type = "QuickbooksToken"
      THEN [exc |-> "", token |-> owner_or_token.token]
    ELSE [exc |-> "ValueError", token |-> None]

online_url_base(sandbox) ==
    IF sandbox THEN QUICKBOOKS_ONLINE_V3_SANDBOX_URL_BASE ELSE QUICKBOOKS_ONLINE_V3_URL_BASE

\* __init__ down to "self.level = None": the exception raised, the object
\* built so far, whether the OAuth1Session was built
init_object(owner_or_token, sandbox, table) ==
    LET r == resolve_token(owner_or_token, table)
    IN  IF r.exc # "" THEN [exc |-> r.exc, self |-> None, session |-> FALSE]
        ELSE IF r.token = None
          THEN [exc |-> "AttributeError", self |-> None, session |-> FALSE]
        ELSE LET token == r.token[1]
             IN  IF token.data_source \notin {"QBD", "QBO"}
                   THEN [exc |-> "KeyError", self |-> None, session |-> TRUE]
                   ELSE [exc |-> "",
                         self |-> Some([token |-> token,
                                        session |-> OAuth1Session(token),
                                        realm_id |-> token.realm_id,
                                        data_source |-> token.data_source,
                                        url_base |-> IF token.data_source = "QBD"
                                                       THEN QUICKBOOKS_DESKTOP_V3_URL_BASE
                                                       ELSE online_url_base(sandbox),
                                        level |-> None]),
                         session |-> TRUE]

s_company == <<"/","c","o","m","p","a","n","y","/">>
s_slash == <<"/">>
s_query == <<"/","q","u","e","r","y","?","q","u","e","r","y","=">>
s_delete == <<"?","o","p","e","r","a","t","i","o","n","=","d","e","l","e","t","e">>
s_update == <<"?","o","p","e","r","a","t","i","o","n","=","u","p","d","a","t","e">>
s_appmenu == <<"a","c","c","o","u","n","t","/","a","p","p","m","e","n","u">>
s_disconnect == <<"c","o","n","n","e","c","t","i","o","n","/","d","i","s","c","o","n","n","e","c","t">>

\* "{}/company/{}/{}/{}".format(...).lower()
read_url(self, object_type, entity_id) ==
    str_lower(self.url_base \o s_company \o self.realm_id \o s_slash \o object_type
                \o s_slash \o entity_id)

\* "{}/company/{}/query?query={}".format(..., urllib.quote(query)), not lowered
query_url(self, query) ==
    self.url_base \o s_company \o self.realm_id \o s_query \o quote(query)

create_url(self, object_type) ==
    str_lower(self.url_base \o s_company \o self.realm_id \o s_slash \o object_type)

delete_url(self, object_type) ==
    str_lower(self.url_base \o s_company \o self.realm_id \o s_slash \o object_type
                \o s_delete)

update_url(self, object_type) ==
    str_lower(self.url_base \o s_company \o self.realm_id \o s_slash \o object_type
                \o s_update)

\* the for loop over name_values: the level when the loop ends, and the
\* exception that ended it
RECURSIVE scan_pairs(_, _, _)
scan_pairs(name_values, i, level) ==
    IF i > Len(name_values) THEN [level |-> level, swallowed |-> ""]
    ELSE IF name_values[i].Name = None THEN [level |-> level, swallowed |-> "KeyError"]
    ELSE scan_pairs(name_values, i + 1,
                    IF name_values[i].Name = Some("OfferingSku")
                      THEN Some(name_values[i].Value) ELSE level)

\* the try block of __init__ once self.query's request has been answered
probe_level(reply) ==
    IF reply = None THEN [level |-> None, swallowed |-> "ConnectionError"]
    ELSE LET o == error_check(reply[1])
         IN  IF o.kind = "raise" THEN [level |-> None, swallowed |-> o.exc]
             ELSE LET b == o.body[1]
                  IN  IF b.QueryResponse = None
                        THEN [level |-> None, swallowed |-> "KeyError"]
                      ELSE IF b.QueryResponse[1].CompanyInfo = None
                        THEN [level |-> None, swallowed |-> "KeyError"]
                      ELSE IF b.QueryResponse[1].CompanyInfo[1] = <<>>
                        THEN [level |-> None, swallowed |-> "IndexError"]
                      ELSE IF b.QueryResponse[1].CompanyInfo[1][1].NameValue = None
                        THEN [level |-> None, swallowed |-> "KeyError"]
                      ELSE scan_pairs(b.QueryResponse[1].CompanyInfo[1][1].NameValue[1],
                                      1, None)

attempts_without_first(retries) == retries

\* len(range(retries + 1))
attempts(retries) == retries + 1

(* ------------------------------- inputs -------------------------------- *)

CompanyInfoQuery == <<"S","E","L","E","C","T"," ","*"," ","F","R","O","M"," ","C","o","m","p","a","n","y","I","n","f","o">>

ItemQuery == <<"s","e","l","e","c","t"," ","*"," ","f","r","o","m"," ","I","t","e","m"," ","w","h","e","r","e"," ","N","a","m","e"," ","="," ","'","A","%","'">>

Queries == {CompanyInfoQuery, ItemQuery}

ObjectTypes == {<<"C","u","s","t","o","m","e","r">>, <<"i","t","e","m">>}

EntityIds == {<<"4","2">>, <<"A","7">>}

ObjectBodies == {"{}"}

AppResponses == {[status_code |-> 200, body |-> InvalidBody, content |-> "menu"],
                 [status_code |-> 200, body |-> InvalidBody, content |-> "connect"],
                 [status_code |-> 500, body |-> InvalidBody, content |-> "error"]}

AppReplies == {None} \cup {Some(r) : r \in AppResponses}

(* -------------------------------- state -------------------------------- *)
(* tokens         rows of the QuickbooksToken table                        *)
(* api            the QuickbooksApi object the caller holds, if any        *)
(* pc             "idle", or the method suspended in a request             *)
(* frame          arguments and locals of the current (or last) call       *)
(* wire           the requests the current (or last) call has dispatched   *)
(* last_response  the reply to the last of them                            *)
(* result         what the last call gave its caller                       *)

Request(method, url, data) == [method |-> method, url |-> url, data |-> data]

Frame(op) == [op |-> op, self |-> None, arg |-> None, owner_type |-> "",
              get_level |-> FALSE, retries |-> 0, retry_i |-> 0, content |-> ""]

NoResult == [kind |-> "none", exc |-> "", body |-> None, parsed |-> FALSE,
             content |-> "", token |-> None, session |-> FALSE, swallowed |-> ""]

Raised(exc) == [NoResult EXCEPT !.kind = "raise", !.exc = exc]

Returned == [NoResult EXCEPT !.kind = "return"]

\* the caller receives what error_check gives
Checked(o) == [NoResult EXCEPT !.kind = o.kind, !.exc = o.exc, !.body = o.body,
                               !.parsed = o.parsed]

Init ==
    /\ tokens \in Stores
    /\ api = None
    /\ pc = "idle"
    /\ frame = Frame("")
    /\ wire = <<>>
    /\ last_response = None
    /\ result = NoResult

\* a data operation dispatches its one request and blocks
Dispatch(op, request, arg) ==
    /\ pc = "idle"
    /\ api # None
    /\ pc' = op
    /\ frame' = [Frame(op) EXCEPT !.arg = arg]
    /\ wire' = <<request>>
    /\ last_response' = None
    /\ result' = NoResult
    /\ UNCHANGED <<tokens, api>>

\* "return error_check(response)", or the transport's exception
Answer(op, reply) ==
    /\ pc = op
    /\ pc' = "idle"
    /\ last_response' = reply
    /\ result' = IF reply = None THEN Raised("ConnectionError")
                                 ELSE Checked(error_check(reply[1]))
    /\ UNCHANGED <<tokens, api, frame, wire>>

read(object_type, entity_id) ==
    Dispatch("read", Request("GET", read_url(api[1], object_type, entity_id), None),
             Some(object_type))

read_return(reply) == Answer("read", reply)

query(q) == Dispatch("query", Request("GET", query_url(api[1], q), None), Some(q))

query_return(reply) == Answer("query", reply)

create(object_type, object_body) ==
    Dispatch("create", Request("POST", create_url(api[1], object_type), Some(object_body)),
             Some(object_type))

create_return(reply) == Answer("create", reply)

delete(object_type, object_body) ==
    Dispatch("delete", Request("POST", delete_url(api[1], object_type), Some(object_body)),
             Some(object_type))

delete_return(reply) == Answer("delete", reply)

update(object_type, object_body) ==
    Dispatch("update", Request("POST", update_url(api[1], object_type), Some(object_body)),
             Some(object_type))

\* "return error_check(request)": the name request is not defined
update_return(reply) ==
    /\ pc = "update"
    /\ pc' = "idle"
    /\ last_response' = reply
    /\ result' = IF reply = None THEN Raised("ConnectionError") ELSE Raised("NameError")
    /\ UNCHANGED <<tokens, api, frame, wire>>

\* QuickbooksApi(owner_or_token, sandbox, get_level), up to the request of
\* self.query("SELECT * FROM CompanyInfo")
QuickbooksApi_init(owner_or_token, sandbox, get_level) ==
    /\ pc = "idle"
    /\ LET o == init_object(owner_or_token, sandbox, tokens)
           f == [Frame("__init__") EXCEPT !.owner_type = owner_or_token.type,
                                          !.get_level = get_level, !.self = o.self]
       IN  /\ frame' = f
           /\ last_response' = None
           /\ IF o.exc # ""
                THEN /\ result' = [Raised(o.exc) EXCEPT !.session = o.session]
                     /\ wire' = <<>>
                     /\ pc' = "idle"
                     /\ api' = api
                ELSE IF ~get_level
                  THEN /\ result' = [Returned EXCEPT !.session = TRUE]
                       /\ wire' = <<>>
                       /\ pc' = "idle"
                       /\ api' = o.self
                  ELSE /\ result' = NoResult
                       /\ wire' = <<Request("GET", query_url(o.self[1], CompanyInfoQuery), None)>>
                       /\ pc' = "__init__"
                       /\ api' = api
    /\ UNCHANGED tokens

\* the rest of the try block, and "except: pass"
QuickbooksApi_init_return(reply) ==
    /\ pc = "__init__"
    /\ LET p == probe_level(reply)
       IN  /\ api' = Some([frame.self[1] EXCEPT !.level = p.level])
           /\ result' = [Returned EXCEPT !.session = TRUE, !.swallowed = p.swallowed]
    /\ pc' = "idle"
    /\ last_response' = reply
    /\ UNCHANGED <<tokens, frame, wire>>

\* _appcenter_request(url, retries) up to the first session.get
appcenter_request(op, url, retries) ==
    /\ pc = "idle"
    /\ api # None
    /\ frame' = [Frame(op) EXCEPT !.retries = retries]
    /\ last_response' = None
    /\ IF attempts(retries) <= 0
         THEN /\ result' = Raised("UnboundLocalError")
              /\ wire' = <<>>
              /\ pc' = "idle"
         ELSE /\ result' = NoResult
              /\ wire' = <<Request("GET", APPCENTER_URL_BASE \o url, None)>>
              /\ pc' = "_appcenter_request"
    /\ UNCHANGED <<tokens, api>>

app_menu(retries) == appcenter_request("app_menu", s_appmenu, retries)

disconnect == appcenter_request("disconnect", s_disconnect, DefaultRetries)

\* one turn of "for retry_i in range(retries + 1)", then "return content"
appcenter_response(reply) ==
    /\ pc = "_appcenter_request"
    /\ last_response' = reply
    /\ IF reply = None
         THEN /\ result' = Raised("ConnectionError")
              /\ pc' = "idle"
              /\ UNCHANGED <<frame, wire>>
         ELSE IF frame.retry_i + 1 < attempts(frame.retries)
           THEN /\ frame' = [frame EXCEPT !.retry_i = @ + 1, !.content = reply[1].content]
                /\ wire' = Append(wire, wire[1])
                /\ UNCHANGED <<pc, result>>
           ELSE /\ frame' = [frame EXCEPT !.content = reply[1].content]
                /\ result' = [Returned EXCEPT !.content = reply[1].content]
                /\ pc' = "idle"
                /\ UNCHANGED wire
    /\ UNCHANGED <<tokens, api>>

find_token(request_or_user) ==
    /\ pc = "idle"
    /\ frame' = [Frame("find_quickbooks_token") EXCEPT !.arg = Some(request_or_user)]
    /\ result' = [Returned EXCEPT !.token = find_quickbooks_token(request_or_user, tokens)]
    /\ wire' = <<>>
    /\ last_response' = None
    /\ UNCHANGED <<tokens, api, pc>>

get_token(request) ==
    /\ pc = "idle"
    /\ frame' = [Frame("get_quickbooks_token") EXCEPT !.arg = Some(request)]
    /\ LET r == get_quickbooks_token(request, tokens)
       IN  result' = IF r.exc # "" THEN Raised(r.exc) ELSE [Returned EXCEPT !.token = r.token]
    /\ wire' = <<>>
    /\ last_response' = None
    /\ UNCHANGED <<tokens, api, pc>>

Next ==
    \/ \E o \in Owners, sandbox \in BOOLEAN, get_level \in BOOLEAN :
          QuickbooksApi_init(o, sandbox, get_level)
    \/ \E reply \in Replies : QuickbooksApi_init_return(reply)
    \/ \E t \in ObjectTypes, e \in EntityIds : read(t, e)
    \/ \E reply \in Replies : read_return(reply)
    \/ \E q \in Queries : query(q)
    \/ \E reply \in Replies : query_return(reply)
    \/ \E t \in ObjectTypes, b \in ObjectBodies : create(t, b)
    \/ \E reply \in Replies : create_return(reply)
    \/ \E t \in ObjectTypes, b \in ObjectBodies : delete(t, b)
    \/ \E reply \in Replies : delete_return(reply)
    \/ \E t \in ObjectTypes, b \in ObjectBodies : update(t, b)
    \/ \E reply \in Replies : update_return(reply)
    \/ \E n \in -1..MaxRetries : app_menu(n)
    \/ disconnect
    \/ \E reply \in AppReplies : appcenter_response(reply)
    \/ \E a \in LookupArgs : find_token(a)
    \/ \E a \in LookupArgs : get_token(a)

Spec == Init /\ [][Next]_vars

(* error_check as a function of the response alone: every response is an  *)
(* initial state, the one action applies error_check to it.                *)

InitErrorCheck ==
    /\ tokens \in Stores
    /\ api = None
    /\ pc = "error_check"
    /\ frame = Frame("error_check")
    /\ wire = <<>>
    /\ last_response \in {Some(r) : r \in Responses}
    /\ result = NoResult

error_check_call ==
    /\ pc = "error_check"
    /\ result' = Checked(error_check(last_response[1]))
    /\ pc' = "idle"
    /\ UNCHANGED <<tokens, api, frame, wire, last_response>>

NextErrorCheck == error_check_call

SpecErrorCheck == InitErrorCheck /\ [][NextErrorCheck]_vars

(* =============================== claims ================================ *)

DataOps == {"read", "query", "create", "update", "delete"}

\* a data operation has returned to its caller after receiving a response
Answered(op) == pc = "idle" /\ frame.op = op /\ last_response # None

Entry6240Body == JsonBody(Some(FaultOf(Some(<<ErrorEntry("6240")>>))), None)

\* C1: every data operation (read, query, create, update, delete) gives its
\* caller exactly what error_check gives for the response received: a 400
\* response with a 6240 entry raises DuplicateNameError, a 200 response
\* returns the parsed body.
C1_OperationsGiveClassifierResult ==
    \A op \in DataOps :
        Answered(op) =>
            /\ result = Checked(error_check(last_response[1]))
            /\ (last_response[1].status_code = 400 /\ last_response[1].body = Entry6240Body)
                  => (result.kind = "raise" /\ result.exc = "DuplicateNameError")
            /\ (last_response[1].status_code = 200 /\ last_response[1].body.parses)
                  => (result.kind = "return" /\ result.body = Some(last_response[1].body))

\* error_check has been applied to the response in last_response
ErrorChecked(status) ==
    pc = "idle" /\ frame.op = "error_check" /\ last_response[1].status_code = status

KnownCodes == {"5030", "6240"}

\* the Error list of a parsed body, empty when Fault or Error is missing
ErrorsOf(body) ==
    IF body.Fault = None THEN <<>>
    ELSE IF body.Fault[1].Error = None THEN <<>> ELSE body.Fault[1].Error[1]

Recognized(body) == {i \in 1..Len(ErrorsOf(body)) : ErrorsOf(body)[i].code \in KnownCodes}

\* C2: a 400 response without a recognized error code (all codes
\* unrecognized, Error empty or absent, or no Fault key) makes error_check
\* raise ApiError itself, carrying the full parsed body; it never returns.
C2_Unrecognized400RaisesApiError ==
    (ErrorChecked(400) /\ last_response[1].body.parses
        /\ Recognized(last_response[1].body) = {})
      => /\ result.kind = "raise"
         /\ result.exc = "ApiError"
         /\ result.body = Some(last_response[1].body)

\* C3: a 400 response whose Fault.Error list has an entry with a code of the
\* table raises the exception mapped to the first such entry in list order
\* (5030 -> FeatureNotSupportedError, 6240 -> DuplicateNameError), carrying
\* the full parsed body.
C3_FirstRecognizedCodeDecides ==
    (ErrorChecked(400) /\ last_response[1].body.parses
        /\ Recognized(last_response[1].body) # {})
      => LET body == last_response[1].body
             k == CHOOSE i \in Recognized(body) : \A j \in Recognized(body) : i <= j
         IN  /\ result.kind = "raise"
             /\ result.exc = IF ErrorsOf(body)[k].code = "5030"
                               THEN "FeatureNotSupportedError" ELSE "DuplicateNameError"
             /\ result.body = Some(body)

C3_Witness ==
    /\ ErrorChecked(400)
    /\ ErrorsOf(last_response[1].body) = <<ErrorEntry("10000"), ErrorEntry("6240")>>
    /\ result.exc = "DuplicateNameError"

\* C4: a 401 response raises AuthenticationFailure whatever its body is, and
\* the body is never parsed.
C4_401RaisesAuthenticationFailure ==
    ErrorChecked(401)
      => /\ result.kind = "raise"
         /\ result.exc = "AuthenticationFailure"
         /\ ~result.parsed

C4_Witness ==
    /\ ErrorChecked(401)
    /\ ~last_response[1].body.parses
    /\ result.exc = "AuthenticationFailure"

\* C5: for a status other than 400 and 401 error_check raises no exception
\* of its own and returns the parsed JSON body unchanged, a Fault envelope
\* with a recognized code included; a body that is not JSON has no parsed
\* form and response.json()'s ValueError is all that can come out.
C5_OtherStatusReturnsBody ==
    (pc = "idle" /\ frame.op = "error_check"
        /\ last_response[1].status_code \notin {400, 401})
      => /\ result.exc \notin Classified
         /\ last_response[1].body.parses
              => (result.kind = "return" /\ result.body = Some(last_response[1].body))
         /\ ~last_response[1].body.parses
              => (result.kind = "raise" /\ result.exc = "ValueError")

C5_Witness ==
    /\ ErrorChecked(500)
    /\ last_response[1].body = Entry6240Body
    /\ result.kind = "return"
    /\ result.body = Some(Entry6240Body)

\* __init__ got as far as the probe and has come back to its caller
Probed == pc = "idle" /\ frame.op = "__init__" /\ frame.get_level /\ frame.self # None

\* the name/value pairs of the probe's response, empty when there are none
PairsOf(reply) ==
    IF reply = None THEN <<>>
    ELSE IF ~reply[1].body.parses \/ reply[1].body.QueryResponse = None THEN <<>>
    ELSE IF reply[1].body.QueryResponse[1].CompanyInfo = None THEN <<>>
    ELSE IF reply[1].body.QueryResponse[1].CompanyInfo[1] = <<>> THEN <<>>
    ELSE IF reply[1].body.QueryResponse[1].CompanyInfo[1][1].NameValue = None THEN <<>>
    ELSE reply[1].body.QueryResponse[1].CompanyInfo[1][1].NameValue[1]

\* C6: construction with get_level=True never fails because of the probe;
\* when the probe fails in any way the level stays None; the level is set
\* only when the response has a pair named OfferingSku, to that pair's value.
C6_ProbeFailureLeavesLevelUnset ==
    Probed
      => /\ result.kind = "return"
         /\ api # None
         /\ result.swallowed # "" => api[1].level = None
         /\ api[1].level # None
              => \E i \in 1..Len(PairsOf(last_response)) :
                    /\ PairsOf(last_response)[i].Name = Some("OfferingSku")
                    /\ api[1].level = Some(PairsOf(last_response)[i].Value)

\* C7: constructing with neither a User nor a QuickbooksToken raises
\* ValueError before the session is built and before any request is sent,
\* whatever the flags.
C7_BadOwnerFailsBeforeNetwork ==
    (frame.op = "__init__" /\ frame.owner_type = "Other")
      => /\ pc = "idle"
         /\ result.kind = "raise"
         /\ result.exc = "ValueError"
         /\ ~result.session
         /\ wire = <<>>
         /\ last_response = None

C7_Witness ==
    /\ frame.op = "__init__"
    /\ frame.owner_type = "Other"
    /\ frame.get_level
    /\ result.exc = "ValueError"

NoUpper(s) == \A i \in 1..Len(s) : s[i] \notin Range(UPPERCASE)

\* the part of a URL before its query string
PathPart(url) ==
    IF "?" \in Range(url)
      THEN SubSeq(url, 1, (CHOOSE i \in 1..Len(url) :
                              url[i] = "?" /\ \A j \in 1..(i - 1) : url[j] # "?") - 1)
      ELSE url

\* the URL of a query is the given prefix followed by one URL-encoding of q
QuotedOnce(url, prefix, q) ==
    /\ Len(url) >= Len(prefix)
    /\ SubSeq(url, 1, Len(prefix)) = prefix
    /\ LET tail == SubSeq(url, Len(prefix) + 1, Len(url))
       IN  /\ Range(tail) \subseteq always_safe \cup {"/", "%"}
           /\ unquote(tail) = q

Dispatched(op) == frame.op = op /\ wire # <<>>

\* C8 as stated: the path of the URL of every data operation, query
\* included, is lower-cased; query's expression is URL-encoded once, its
\* case preserved.
C8_EveryPathLowerCased ==
    /\ \A op \in DataOps : Dispatched(op) => NoUpper(PathPart(wire[1].url))
    /\ Dispatched("query")
         => QuotedOnce(wire[1].url, PathPart(wire[1].url) \o <<"?","q","u","e","r","y","=">>,
                       frame.arg[1])

\* C8 amended: read, create, update and delete dispatch a URL without any
\* upper-case letter; query dispatches base, /company/, the tenant id as
\* stored and /query?query= followed by one URL-encoding of the expression.
C8_LowerCasedExceptQuery ==
    /\ \A op \in DataOps \ {"query"} : Dispatched(op) => NoUpper(wire[1].url)
    /\ Dispatched("query")
         => QuotedOnce(wire[1].url,
                       api[1].url_base \o s_company \o api[1].token.realm_id \o s_query,
                       frame.arg[1])

C8_Witness ==
    /\ Dispatched("query")
    /\ pc = "idle"
    /\ ~NoUpper(api[1].token.realm_id)
    /\ ~NoUpper(PathPart(wire[1].url))
    /\ ~NoUpper(frame.arg[1])

\* the stored tokens of a user, in table order
RowsOf(user) == {i \in 1..Len(tokens) : tokens[i].user = user}

NotFound(arg) == ~arg.user.is_authenticated \/ RowsOf(arg.user) = {}

FirstRow(arg) == tokens[CHOOSE i \in RowsOf(arg.user) : \A j \in RowsOf(arg.user) : i <= j]

\* C9: find_quickbooks_token never raises: it returns None for an
\* unauthenticated identity or one without a stored token, else a stored
\* token of the identity; get_quickbooks_token raises MissingTokenException
\* exactly in the None case and returns that same token otherwise.
C9_TokenLookup ==
    /\ frame.op = "find_quickbooks_token"
         => /\ result.kind = "return"
            /\ NotFound(frame.arg[1]) => result.token = None
            /\ ~NotFound(frame.arg[1]) => result.token = Some(FirstRow(frame.arg[1]))
    /\ frame.op = "get_quickbooks_token"
         => /\ NotFound(frame.arg[1])
                 => (result.kind = "raise" /\ result.exc = "MissingTokenException")
            /\ ~NotFound(frame.arg[1])
                 => (result.kind = "return" /\ result.token = Some(FirstRow(frame.arg[1])))

C9_Witness ==
    /\ frame.op = "get_quickbooks_token"
    /\ ~frame.arg[1].user.is_authenticated
    /\ RowsOf(frame.arg[1].user) # {}
    /\ result.exc = "MissingTokenException"

AppMenuDone == pc = "idle" /\ frame.op = "app_menu"

\* C10 as stated: app_menu(retries = n) issues exactly n requests and
\* returns the content of the last response.
C10_AppMenuIssuesRetriesRequests ==
    (AppMenuDone /\ result.kind = "return")
      => /\ Len(wire) = frame.retries
         /\ result.content = last_response[1].content

\* C10 amended: for n >= 0, app_menu(retries = n) issues n + 1 requests one
\* after the other whatever the responses are and returns the content of
\* the last one; only an exception of the transport ends it earlier.
C10_AppMenuIssuesRetriesPlusOne ==
    (frame.op = "app_menu" /\ frame.retries >= 0)
      => /\ pc # "idle" => (Len(wire) = frame.retry_i + 1 /\ Len(wire) <= frame.retries + 1)
         /\ (pc = "idle" /\ result.kind = "return")
              => /\ Len(wire) = frame.retries + 1
                 /\ last_response # None
                 /\ result.content = last_response[1].content
         /\ (pc = "idle" /\ result.kind = "raise")
              => /\ result.exc = "ConnectionError"
                 /\ last_response = None
                 /\ Len(wire) <= frame.retries + 1
         /\ \A i \in 1..Len(wire) : wire[i] = Request("GET", APPCENTER_URL_BASE \o s_appmenu, None)

C10_Witness ==
    /\ AppMenuDone
    /\ frame.retries = 2
    /\ result.kind = "return"
    /\ Len(wire) = 3
    /\ result.content = "menu"

====
